---- MODULE Spec2Model ----
(***************************************************************************)
(* Model of src/main.py: a Kafka consumer/producer loop that parses each   *)
(* record as JSON, filters or transforms it, keeps running insight         *)
(* counters, republishes the result and reports the counters every tenth   *)
(* processed record and at shutdown.                                       *)
(***************************************************************************)
EXTENDS Integers, Sequences, FiniteSets, TLC

VARIABLES
    pc,               \* position of the main thread
    consumer,         \* global consumer: "unset", "open" or "closed"
    producer,         \* global producer: "unset" or "open"
    msg,              \* the loop variable msg (result of the last poll)
    processed_data,   \* the loop variable processed_data
    processed_count,  \* global processed_count
    insights,         \* global insights (defaultdict(int))
    sink,             \* values handed to producer.produce, in call order
    flushed,          \* how many produced values producer.flush() has covered
    reports,          \* number of "Insights so far" log lines
    final,            \* <<>> or <<snapshot>>: the "Final Insights" log line
    pending,          \* exception in flight when the finally block is entered
    exit_status,      \* -1 while running, then the process exit status
    delivery_info,    \* number of "Message delivered" log lines
    delivery_errors,  \* number of "Message failed delivery" log lines
    arrived,          \* history: the record payloads polled, in order
    returned,         \* history: records for which process_message returned output
    polled,           \* history: records returned by poll
    parsed,           \* history: records whose payload was valid JSON text
    counted,          \* history: the current record incremented processed_count
    signalled,        \* history: handle_shutdown has run
    fatal             \* history: the source has reported a fatal fault

vars == <<pc, consumer, producer, msg, processed_data, processed_count,
          insights, sink, flushed, reports, final, pending, exit_status,
          delivery_info, delivery_errors, arrived, returned,
          polled, parsed, counted, signalled, fatal>>

-----------------------------------------------------------------------------
(* Bounds *)

\* longest JSON object text (number of key/value members) polled in Spec
MaxFields == 2
\* number of records the source delivers in Spec
MaxRecords == 2
\* number of records the source delivers in SpecRun
RunRecords == 21
\* number of records the source delivers in SpecSink
SinkRecords == 3

\* the literal 10 of `processed_count % 10 == 0`
ReportEvery == 10

-----------------------------------------------------------------------------
(* JSON values and texts *)

Str(s) == [t |-> "str", v |-> s]
JTrue == [t |-> "bool", v |-> "True"]
JFalse == [t |-> "bool", v |-> "False"]
PyNone == [t |-> "none", v |-> "None"]

\* Python truthiness of a value returned by dict.get
Truthy(x) ==
    \/ x.t = "str" /\ x.v # ""
    \/ x.t = "bool" /\ x.v = "True"

\* str(x) as interpolated by an f-string
Format(x) == x.v

Member(k, x) == [k |-> k, val |-> x]

\* the key/value members a polled JSON object text is written with
Members ==
    { Member("app_version", Str("2.0.0")),
      Member("app_version", Str("1.5.0")),
      Member("device_type", Str("mobile")),
      Member("device_type", Str("")),
      Member("processed", JFalse) }

SeqsUpTo(S, n) == UNION { [1..m -> S] : m \in 0..n }

\* a record payload: msg.value() is None, bytes that are not UTF-8, or text;
\* text is not JSON ("garbage"), a JSON value that is no object, or an object
\* written as a list of members (keys may repeat)
Payload(enc, syn, members) == [enc |-> enc, syn |-> syn, members |-> members]
NoValue == Payload("none", "", <<>>)
BadUtf8 == Payload("badutf8", "", <<>>)
Garbage == Payload("utf8", "garbage", <<>>)
NonObjects == { Payload("utf8", s, <<>>) : s \in {"array", "string", "number", "null"} }
ObjectText(members) == Payload("utf8", "object", members)

Values ==
    {NoValue, BadUtf8, Garbage} \cup NonObjects
        \cup { ObjectText(m) : m \in SeqsUpTo(Members, MaxFields) }

RunValues ==
    { Garbage,
      ObjectText(<<Member("device_type", Str("mobile"))>>) }

\* the payloads of SpecSink: text that is not JSON, a JSON array, a filtered
\* object and two default-branch objects
SinkValues ==
    { Garbage,
      Payload("utf8", "array", <<>>),
      ObjectText(<<Member("app_version", Str("2.0.0")),
                   Member("device_type", Str("mobile"))>>),
      ObjectText(<<Member("device_type", Str("mobile"))>>),
      ObjectText(<<Member("app_version", Str("1.5.0"))>>) }

\* the broker as the producer sees it: the outcomes a delivery can have, and
\* whether deliveries can complete before producer.flush() waits for them
\* (linger.ms = 100 holds a produced message back for a batch)
Broker(outcomes, prompt) == [outcomes |-> outcomes, prompt |-> prompt]
BatchingBroker == Broker({"delivered"}, FALSE)
LossyBroker == Broker({"delivered", "failed"}, TRUE)

\* what consumer.poll returns
PollNone == [err |-> "timeout", value |-> NoValue]
PollError(e) == [err |-> e, value |-> NoValue]
PollRecord(v) == [err |-> "none", value |-> v]

\* process_message returning None
NoOutput == Payload("utf8", "None", <<>>)

-----------------------------------------------------------------------------
(* dict operations *)

\* d[k] = x on an insertion-ordered dict (a member list with distinct keys)
DictSet(d, k, x) ==
    IF \E i \in 1..Len(d) : d[i].k = k
    THEN [i \in 1..Len(d) |-> IF d[i].k = k THEN Member(k, x) ELSE d[i]]
    ELSE Append(d, Member(k, x))

\* d.get(k)
DictGet(d, k) ==
    IF \E i \in 1..Len(d) : d[i].k = k
    THEN d[CHOOSE i \in 1..Len(d) : d[i].k = k].val
    ELSE PyNone

\* json.loads of an object text: members are inserted in order, a repeated
\* key keeps its first position and takes its last value
RECURSIVE LoadsFrom(_, _)
LoadsFrom(d, members) ==
    IF members = <<>> THEN d
    ELSE LoadsFrom(DictSet(d, Head(members).k, Head(members).val), Tail(members))

Loads(members) == LoadsFrom(<<>>, members)

\* json.dumps of a dict: one member per key, in insertion order
Dumps(d) == ObjectText(d)

\* insights[key] += 1 on a defaultdict(int)
Increment(ins, key) ==
    IF key \in DOMAIN ins
    THEN [ins EXCEPT ![key] = @ + 1]
    ELSE [k \in DOMAIN ins \cup {key} |-> IF k = key THEN 1 ELSE ins[k]]

EmptyInsights == [k \in {} |-> 0]

-----------------------------------------------------------------------------
(* process_message *)

Result(count, ins, out) == [count |-> count, ins |-> ins, out |-> out]

\* faulty variant: the filter branch also tallies the device type
FilterBranchTalliesDevice(data, count, ins) ==
    LET device_type == DictGet(data, "device_type")
        tallied == IF Truthy(device_type)
                   THEN Increment(ins, "device_type:" \o Format(device_type))
                   ELSE ins
    IN  Result(count, Increment(tallied, "app_version_2.0.0"), Dumps(data))

\* faulty variant: the filter branch marks its output as processed
FilterBranchMarksProcessed(data, count, ins) ==
    Result(count, Increment(ins, "app_version_2.0.0"),
           Dumps(DictSet(data, "processed", JTrue)))

\* the filter branch, lines 82-85
FilterBranch(data, count, ins) ==
    Result(count, Increment(ins, "app_version_2.0.0"), Dumps(data))

\* faulty variant: the default branch forgets the 'processed' field
DefaultBranchUnmarked(data, count, ins) ==
    LET device_type == DictGet(data, "device_type")
    IN  Result(count,
               IF Truthy(device_type)
               THEN Increment(ins, "device_type:" \o Format(device_type))
               ELSE ins,
               Dumps(data))

\* faulty variant: the default branch tallies every device_type that is present
DefaultBranchTalliesEmpty(data, count, ins) ==
    LET device_type == DictGet(data, "device_type")
    IN  Result(count,
               IF device_type # PyNone
               THEN Increment(ins, "device_type:" \o Format(device_type))
               ELSE ins,
               Dumps(DictSet(data, "processed", JTrue)))

\* the default branch, lines 87-95
DefaultBranch(data, count, ins) ==
    LET device_type == DictGet(data, "device_type")
    IN  Result(count,
               IF Truthy(device_type)
               THEN Increment(ins, "device_type:" \o Format(device_type))
               ELSE ins,
               Dumps(DictSet(data, "processed", JTrue)))

\* faulty variant: processed_count is incremented before json.loads
process_messageCountsFirst(text, count, ins) ==
    IF text.syn = "garbage"
    THEN Result(count + 1, ins, NoOutput)
    ELSE IF text.syn # "object"
    THEN Result(count + 1, ins, NoOutput)
    ELSE LET data == Loads(text.members)
         IN  IF DictGet(data, "app_version") = Str("2.0.0")
             THEN FilterBranch(data, count + 1, ins)
             ELSE DefaultBranch(data, count + 1, ins)

\* faulty variant: processed_count is incremented after the first data.get
process_messageCountsObjects(text, count, ins) ==
    IF text.syn = "garbage"
    THEN Result(count, ins, NoOutput)
    ELSE IF text.syn # "object"
    THEN Result(count, ins, NoOutput)
    ELSE LET data == Loads(text.members)
         IN  IF DictGet(data, "app_version") = Str("2.0.0")
             THEN FilterBranch(data, count + 1, ins)
             ELSE DefaultBranch(data, count + 1, ins)

\* process_message(text) with the globals it reads and writes
process_message(text, count, ins) ==
    IF text.syn = "garbage"
    THEN Result(count, ins, NoOutput)           \* json.JSONDecodeError
    ELSE IF text.syn # "object"
    THEN Result(count + 1, ins, NoOutput)       \* data.get raises AttributeError
    ELSE LET data == Loads(text.members)
         IN  IF DictGet(data, "app_version") = Str("2.0.0")
             THEN FilterBranch(data, count + 1, ins)
             ELSE DefaultBranch(data, count + 1, ins)

-----------------------------------------------------------------------------
(* the program *)

Init ==
    /\ pc = "start"
    /\ consumer = "unset"
    /\ producer = "unset"
    /\ msg = PollNone
    /\ processed_data = NoOutput
    /\ processed_count = 0
    /\ insights = EmptyInsights
    /\ sink = <<>>
    /\ flushed = 0
    /\ reports = 0
    /\ final = <<>>
    /\ pending = "none"
    /\ exit_status = -1
    /\ delivery_info = 0
    /\ delivery_errors = 0
    /\ arrived = <<>>
    /\ returned = 0
    /\ polled = 0
    /\ parsed = 0
    /\ counted = FALSE
    /\ signalled = FALSE
    /\ fatal = FALSE

\* positions inside main()'s try block
InTry == {"poll", "process", "produce", "report"}

\* exit status of a process ended by exception exc
StatusOf(exc) == IF exc = "error" THEN 1 ELSE 0

\* the process ends with `status`; the locals of main() end with it
Exit(status) ==
    /\ pc' = "exited"
    /\ exit_status' = status
    /\ msg' = PollNone
    /\ processed_data' = NoOutput

\* an exception raised at the current position: inside the try block it
\* reaches the finally block, elsewhere it ends the process
Raise(exc) ==
    IF pc \in InTry
    THEN /\ pc' = "finally"
         /\ pending' = exc
         /\ UNCHANGED <<exit_status, msg, processed_data>>
    ELSE /\ Exit(StatusOf(exc))
         /\ pending' = pending

\* produced messages whose delivery report has not run yet
Outstanding(produced) == Len(produced) - delivery_info - delivery_errors

\* delivery_report (lines 63-68) runs for n messages, each with an outcome
\* the broker allows: it logs an error or an info line and does nothing else
delivery_report(n, broker) ==
    \E failures \in 0..n :
        /\ failures > 0 => "failed" \in broker.outcomes
        /\ failures < n => "delivered" \in broker.outcomes
        /\ delivery_errors' = delivery_errors + failures
        /\ delivery_info' = delivery_info + (n - failures)

\* producer.flush(): waits for every outstanding delivery and serves its report
Flush(broker) ==
    /\ flushed' = Len(sink)
    /\ delivery_report(Outstanding(sink), broker)

\* consumer.close(): whether closing a closed consumer raises RuntimeError
\* depends on the client library version
CloseOutcomes(c) == IF c = "closed" THEN {"ok", "raise"} ELSE {"ok"}

\* line 109
CreateConsumer ==
    /\ pc = "start"
    /\ consumer' = "open"
    /\ pc' = "mk_producer"
    /\ UNCHANGED <<producer, msg, processed_data, processed_count, insights,
                   sink, flushed, reports, final, pending, exit_status,
                   delivery_info, delivery_errors, arrived, returned,
                   polled, parsed, counted, signalled, fatal>>

\* lines 110-115
CreateProducer ==
    /\ pc = "mk_producer"
    /\ producer' = "open"
    /\ pc' = "poll"
    /\ UNCHANGED <<consumer, msg, processed_data, processed_count, insights,
                   sink, flushed, reports, final, pending, exit_status,
                   delivery_info, delivery_errors, arrived, returned,
                   polled, parsed, counted, signalled, fatal>>

\* faulty variant: a non-fatal source fault falls through to the report
PollFaultFallsThrough(values, max, track) ==
    /\ pc = "poll"
    /\ \/ /\ msg' = PollNone
          /\ UNCHANGED <<pc, pending, polled, fatal, arrived>>
       \/ /\ msg' = PollError("nonfatal")
          /\ pc' = "report"
          /\ UNCHANGED <<pending, polled, fatal, arrived>>
       \/ /\ msg' = PollError("fatal")
          /\ pc' = "finally"
          /\ pending' = "none"
          /\ fatal' = TRUE
          /\ UNCHANGED <<polled, arrived>>
       \/ /\ polled < max
          /\ \E v \in values :
                /\ msg' = PollRecord(v)
                /\ arrived' = IF track THEN Append(arrived, v) ELSE arrived
          /\ pc' = "process"
          /\ polled' = polled + 1
          /\ UNCHANGED <<pending, fatal>>
    /\ UNCHANGED <<consumer, producer, processed_data, processed_count,
                   insights, sink, flushed, reports, final, exit_status,
                   delivery_info, delivery_errors, returned,
                   parsed, counted, signalled>>

\* lines 119-127; `track` says whether the history `arrived` is kept
Poll(values, max, track) ==
    /\ pc = "poll"
    /\ \/ /\ msg' = PollNone
          /\ UNCHANGED <<pc, pending, polled, fatal, arrived>>
       \/ /\ msg' = PollError("nonfatal")
          /\ UNCHANGED <<pc, pending, polled, fatal, arrived>>
       \/ /\ msg' = PollError("fatal")
          /\ pc' = "finally"
          /\ pending' = "none"
          /\ fatal' = TRUE
          /\ UNCHANGED <<polled, arrived>>
       \/ /\ polled < max
          /\ \E v \in values :
                /\ msg' = PollRecord(v)
                /\ arrived' = IF track THEN Append(arrived, v) ELSE arrived
          /\ pc' = "process"
          /\ polled' = polled + 1
          /\ UNCHANGED <<pending, fatal>>
    /\ UNCHANGED <<consumer, producer, processed_data, processed_count,
                   insights, sink, flushed, reports, final, exit_status,
                   delivery_info, delivery_errors, returned,
                   parsed, counted, signalled>>

\* line 130
Process ==
    /\ pc = "process"
    /\ IF msg.value.enc # "utf8"
       THEN /\ Raise("error")
            /\ counted' = FALSE
            /\ UNCHANGED <<processed_count, insights, parsed, returned>>
       ELSE LET r == process_message(msg.value, processed_count, insights)
            IN  /\ processed_count' = r.count
                /\ insights' = r.ins
                /\ processed_data' = r.out
                /\ parsed' = IF msg.value.syn # "garbage" THEN parsed + 1 ELSE parsed
                /\ counted' = (r.count # processed_count)
                /\ returned' = IF r.out # NoOutput THEN returned + 1 ELSE returned
                /\ pc' = "produce"
                /\ UNCHANGED <<msg, pending, exit_status>>
    /\ UNCHANGED <<consumer, producer, sink, flushed, reports, final,
                   delivery_info, delivery_errors, arrived,
                   polled, signalled, fatal>>

\* faulty variant: a failed delivery is produced again
ProduceRetries(broker) ==
    /\ pc = "produce"
    /\ IF processed_data # NoOutput
       THEN \E n \in (IF broker.prompt THEN 0..(Outstanding(sink) + 1) ELSE {0}) :
               /\ delivery_report(n, broker)
               /\ sink' = IF delivery_errors' > delivery_errors
                          THEN Append(Append(sink, processed_data),
                                      processed_data)
                          ELSE Append(sink, processed_data)
       ELSE UNCHANGED <<sink, delivery_info, delivery_errors>>
    /\ pc' = "report"
    /\ UNCHANGED <<consumer, producer, msg, processed_data, processed_count,
                   insights, flushed, reports, final, pending, exit_status,
                   arrived, returned, polled, parsed, counted, signalled,
                   fatal>>

\* faulty variant: the output is inserted at the head of the sink's queue
ProducePrepends(broker) ==
    /\ pc = "produce"
    /\ IF processed_data # NoOutput
       THEN /\ sink' = <<processed_data>> \o sink
            /\ \E n \in (IF broker.prompt THEN 0..Outstanding(sink') ELSE {0}) :
                  delivery_report(n, broker)
       ELSE UNCHANGED <<sink, delivery_info, delivery_errors>>
    /\ pc' = "report"
    /\ UNCHANGED <<consumer, producer, msg, processed_data, processed_count,
                   insights, flushed, reports, final, pending, exit_status,
                   arrived, returned, polled, parsed, counted, signalled,
                   fatal>>

\* lines 131-134: producer.produce, then producer.poll(0) serving the
\* delivery reports that are ready
Produce(broker) ==
    /\ pc = "produce"
    /\ IF processed_data # NoOutput
       THEN /\ sink' = Append(sink, processed_data)
            /\ \E n \in (IF broker.prompt THEN 0..Outstanding(sink') ELSE {0}) :
                  delivery_report(n, broker)
       ELSE UNCHANGED <<sink, delivery_info, delivery_errors>>
    /\ pc' = "report"
    /\ UNCHANGED <<consumer, producer, msg, processed_data, processed_count,
                   insights, flushed, reports, final, pending, exit_status,
                   arrived, returned, polled, parsed, counted, signalled,
                   fatal>>

\* faulty variant: no report while processed_count is 0
ReportSkipsZero ==
    /\ pc = "report"
    /\ reports' = IF processed_count > 0 /\ processed_count % ReportEvery = 0
                  THEN reports + 1 ELSE reports
    /\ pc' = "poll"
    /\ UNCHANGED <<consumer, producer, msg, processed_data, processed_count,
                   insights, sink, flushed, final, pending, exit_status,
                   delivery_info, delivery_errors, arrived, returned,
                   polled, parsed, counted, signalled, fatal>>

\* faulty variant: the counters are cleared once they have been reported
ReportResets ==
    /\ pc = "report"
    /\ reports' = IF processed_count % ReportEvery = 0 THEN reports + 1 ELSE reports
    /\ insights' = IF processed_count % ReportEvery = 0 THEN EmptyInsights ELSE insights
    /\ pc' = "poll"
    /\ UNCHANGED <<consumer, producer, msg, processed_data, processed_count,
                   sink, flushed, final, pending, exit_status,
                   delivery_info, delivery_errors, arrived, returned,
                   polled, parsed, counted, signalled, fatal>>

\* lines 137-138
Report ==
    /\ pc = "report"
    /\ reports' = IF processed_count % ReportEvery = 0 THEN reports + 1 ELSE reports
    /\ pc' = "poll"
    /\ UNCHANGED <<consumer, producer, msg, processed_data, processed_count,
                   insights, sink, flushed, final, pending, exit_status,
                   delivery_info, delivery_errors, arrived, returned,
                   polled, parsed, counted, signalled, fatal>>

\* line 146, entered from the try block with the exception `pending`
FinallyClose ==
    /\ pc = "finally"
    /\ \E r \in CloseOutcomes(consumer) :
          IF r = "raise"
          THEN /\ Raise("error")                    \* RuntimeError
               /\ UNCHANGED consumer
          ELSE /\ consumer' = "closed"
               /\ pc' = "finally_flush"
               /\ UNCHANGED <<pending, exit_status, msg, processed_data>>
    /\ UNCHANGED <<producer, processed_count, insights, sink, flushed,
                   reports, final, delivery_info, delivery_errors, arrived,
                   returned, polled, parsed, counted, signalled, fatal>>

\* line 147
FinallyFlush(broker) ==
    /\ pc = "finally_flush"
    /\ Flush(broker)
    /\ pc' = "finally_log"
    /\ UNCHANGED <<consumer, producer, msg, processed_data, processed_count,
                   insights, sink, reports, final, pending, exit_status,
                   arrived, returned, polled, parsed, counted, signalled,
                   fatal>>

\* lines 148-149, then main() returns or the pending exception goes on
FinallyLog ==
    /\ pc = "finally_log"
    /\ final' = <<insights>>
    /\ Exit(StatusOf(pending))
    /\ UNCHANGED <<consumer, producer, processed_count, insights, sink,
                   flushed, reports, pending, delivery_info, delivery_errors,
                   arrived, returned, polled, parsed, counted, signalled,
                   fatal>>

\* SIGINT or SIGTERM: lines 49-54, run in the main thread at its position
handle_shutdown(broker) ==
    /\ pc # "exited"
    /\ signalled' = TRUE
    /\ IF consumer = "unset"
       THEN /\ Raise("error")                       \* NameError, line 52
            /\ UNCHANGED <<consumer, flushed, delivery_info, delivery_errors>>
       ELSE \E r \in CloseOutcomes(consumer) :
              IF r = "raise"
              THEN /\ Raise("error")                \* RuntimeError, line 52
                   /\ UNCHANGED <<consumer, flushed, delivery_info,
                                  delivery_errors>>
              ELSE /\ consumer' = "closed"
                   /\ IF producer = "unset"
                      THEN /\ Raise("error")        \* NameError, line 53
                           /\ UNCHANGED <<flushed, delivery_info,
                                          delivery_errors>>
                      ELSE /\ Flush(broker)
                           /\ Raise("SystemExit")   \* sys.exit(0)
    /\ UNCHANGED <<producer, processed_count, insights, sink, reports,
                   final, arrived, returned, polled, parsed, counted, fatal>>

Next ==
    \/ CreateConsumer
    \/ CreateProducer
    \/ Poll(Values, MaxRecords, FALSE)
    \/ Process
    \/ Produce(BatchingBroker)
    \/ Report
    \/ FinallyClose
    \/ FinallyFlush(BatchingBroker)
    \/ FinallyLog
    \/ handle_shutdown(BatchingBroker)

Spec == Init /\ [][Next]_vars

\* the same program on a long run of few kinds of record
NextRun ==
    \/ CreateConsumer
    \/ CreateProducer
    \/ Poll(RunValues, RunRecords, FALSE)
    \/ Process
    \/ Produce(BatchingBroker)
    \/ Report
    \/ FinallyClose
    \/ FinallyFlush(BatchingBroker)
    \/ FinallyLog
    \/ handle_shutdown(BatchingBroker)

SpecRun == Init /\ [][NextRun]_vars

\* the same program with the arrival order recorded and a broker whose
\* deliveries can fail and can complete at any time
NextSink ==
    \/ CreateConsumer
    \/ CreateProducer
    \/ Poll(SinkValues, SinkRecords, TRUE)
    \/ Process
    \/ Produce(LossyBroker)
    \/ Report
    \/ FinallyClose
    \/ FinallyFlush(LossyBroker)
    \/ FinallyLog
    \/ handle_shutdown(LossyBroker)

SpecSink == Init /\ [][NextSink]_vars

-----------------------------------------------------------------------------
(* Vocabulary of the properties, stated on the payload as written *)

\* the count an insight key stands at (0 when the key is absent)
Count(ins, k) == IF k \in DOMAIN ins THEN ins[k] ELSE 0

\* a JSON object text has a member named k
HasField(members, k) == \E i \in 1..Len(members) : members[i].k = k

\* the value of field k of a JSON object text: that of its last member named k
FieldOf(members, k) ==
    members[CHOOSE i \in 1..Len(members) :
                /\ members[i].k = k
                /\ \A j \in (i + 1)..Len(members) : members[j].k # k].val

FieldNames(members) == { members[i].k : i \in 1..Len(members) }

\* two JSON object texts denote the same keys and values, but for field `but`
SameFieldsBut(a, b, but) ==
    /\ FieldNames(a) \ but = FieldNames(b) \ but
    /\ \A k \in FieldNames(a) \ but : FieldOf(a, k) = FieldOf(b, k)

IsRecord(m) == m.err = "none"
IsObject(m) == IsRecord(m) /\ m.value.enc = "utf8" /\ m.value.syn = "object"
IsMalformed(m) ==
    /\ IsRecord(m)
    /\ \/ m.value.enc = "badutf8"
       \/ m.value.enc = "utf8" /\ m.value.syn = "garbage"

\* app_version == "2.0.0"
OnFilterBranch(m) ==
    /\ IsObject(m)
    /\ HasField(m.value.members, "app_version")
    /\ FieldOf(m.value.members, "app_version") = Str("2.0.0")

\* app_version absent or different
OnDefaultBranch(m) == IsObject(m) /\ ~OnFilterBranch(m)

HasDeviceType(m) ==
    /\ HasField(m.value.members, "device_type")
    /\ FieldOf(m.value.members, "device_type").t = "str"
    /\ FieldOf(m.value.members, "device_type").v # ""

\* the step in which the call of process_message on line 130 returns
ProcessReturns == pc = "process" /\ pc' = "produce"

\* insights changes by exactly one increment of key
OnlyIncrements(key) ==
    \A k \in DOMAIN insights \cup DOMAIN insights' \cup {key} :
        Count(insights', k) = Count(insights, k) + (IF k = key THEN 1 ELSE 0)

-----------------------------------------------------------------------------
(* Properties *)

\* C1: processing an object whose app_version is "2.0.0" increments the
\* counter 'app_version_2.0.0' by exactly 1 and changes no other insight
\* counter, whatever device_type the record carries.
FilterCountsOnlyAppVersionC1 ==
    [][ProcessReturns /\ OnFilterBranch(msg)
          => OnlyIncrements("app_version_2.0.0")]_vars

\* a filtered record with a device type was processed after a default-branch
\* record had created the device_type counter
FilterCountsOnlyAppVersionC1Witness ==
    /\ pc = "produce"
    /\ OnFilterBranch(msg)
    /\ HasDeviceType(msg)
    /\ Count(insights, "app_version_2.0.0") = 1
    /\ Count(insights, "device_type:mobile") = 1

\* C2 as stated: the output of a filtered record denotes the input object and
\* never has a 'processed' field.
FilterOutputHasNoProcessedC2 ==
    (pc = "produce" /\ OnFilterBranch(msg))
        => /\ processed_data.syn = "object"
           /\ SameFieldsBut(processed_data.members, msg.value.members, {})
           /\ ~HasField(processed_data.members, "processed")

\* C2 as amended: the output of a filtered record denotes the input object,
\* key for key and value for value; so it has a 'processed' field exactly when
\* the input carries one, and then with the input's value.
FilterOutputUnchangedC2 ==
    (pc = "produce" /\ OnFilterBranch(msg))
        => /\ processed_data.syn = "object"
           /\ SameFieldsBut(processed_data.members, msg.value.members, {})
           /\ HasField(processed_data.members, "processed")
                 <=> HasField(msg.value.members, "processed")

FilterOutputUnchangedC2Witness ==
    /\ pc = "produce"
    /\ OnFilterBranch(msg)
    /\ HasField(msg.value.members, "processed")
    /\ FieldOf(processed_data.members, "processed") = JFalse

\* C3: processing an object off the filter branch with a non-empty
\* device_type returns the object with processed = true and every other field
\* as in the input, increments 'device_type:<value>' by exactly 1 and changes
\* no other insight counter.
DefaultTransformsAndCountsDeviceC3 ==
    [][ProcessReturns /\ OnDefaultBranch(msg) /\ HasDeviceType(msg)
          => ( /\ processed_data'.syn = "object"
               /\ HasField(processed_data'.members, "processed")
               /\ FieldOf(processed_data'.members, "processed") = JTrue
               /\ SameFieldsBut(processed_data'.members, msg.value.members,
                                {"processed"})
               /\ OnlyIncrements("device_type:"
                       \o FieldOf(msg.value.members, "device_type").v) )]_vars

\* a record with another app_version and a device type was processed after a
\* filtered record had created the app_version counter
DefaultTransformsAndCountsDeviceC3Witness ==
    /\ pc = "produce"
    /\ OnDefaultBranch(msg)
    /\ HasDeviceType(msg)
    /\ HasField(msg.value.members, "app_version")
    /\ Count(insights, "device_type:mobile") = 1
    /\ Count(insights, "app_version_2.0.0") = 1

\* C4: while a malformed record (bytes that are not UTF-8, or text that is
\* not JSON) is being handled, nothing is handed to the sink and neither
\* processed_count nor any insight counter changes.
MalformedLeavesNoTraceC4 ==
    [][IsMalformed(msg) /\ pc \in {"process", "produce", "report"}
          => ( /\ sink' = sink
               /\ processed_count' = processed_count
               /\ insights' = insights
               /\ (ProcessReturns => processed_data' = NoOutput) )]_vars

\* a text that is not JSON went through the whole loop body after a counted
\* and produced record
MalformedLeavesNoTraceC4Witness ==
    /\ pc = "poll"
    /\ IsMalformed(msg)
    /\ polled = 2
    /\ processed_count = 1
    /\ Len(sink) = 1

\* C5 as stated: the loop is left only on a fatal source fault or a shutdown
\* signal, never because of a record.
LoopEndsOnlyOnFatalOrSignalC5 ==
    pc \in {"finally", "finally_flush", "finally_log", "exited"}
        => (fatal \/ signalled)

\* C6: processed_count is the number of records so far whose payload was
\* valid JSON text; it never decreases, and it changes only when
\* process_message has parsed such a payload.
ProcessedCountIsParsedCountC6 ==
    /\ [](processed_count = parsed)
    /\ [][processed_count' >= processed_count]_vars
    /\ [][processed_count' # processed_count
             => ( /\ ProcessReturns
                  /\ msg.value.enc = "utf8"
                  /\ msg.value.syn # "garbage"
                  /\ processed_count' = processed_count + 1 )]_vars

\* a JSON value that is no object was counted after an object
ProcessedCountIsParsedCountC6Witness ==
    /\ pc = "report"
    /\ IsRecord(msg)
    /\ msg.value.syn \in {"array", "string", "number", "null"}
    /\ processed_count = 2

\* C7 as stated: between records, the number of periodic reports is the
\* number of tenth successfully parsed records.
ReportOncePerTenthParsedC7 ==
    pc = "poll" => reports = processed_count \div ReportEvery

\* C7 as amended: the periodic report is logged at the end of the loop body
\* of a record, and there exactly when processed_count is a multiple of 10:
\* once after each tenth successfully parsed record, and also after a record
\* that failed to decode or parse as an object while processed_count stands
\* at a multiple of 10, 0 included.
ReportWhenMultipleOfTenC7 ==
    /\ [][reports' # reports => pc = "report" /\ pc' = "poll"]_vars
    /\ [][pc = "report" /\ pc' = "poll"
             => reports' = reports
                    + (IF processed_count % ReportEvery = 0 THEN 1 ELSE 0)]_vars
    /\ [](pc = "poll" => reports >= processed_count \div ReportEvery)

\* ten parsed records, then a text that is not JSON: a report after the
\* tenth and another after the eleventh
ReportWhenMultipleOfTenC7Witness ==
    /\ pc = "poll"
    /\ polled = 11
    /\ processed_count = 10
    /\ ~counted
    /\ reports = 2

\* C8 as stated: once the process has exited through handle_shutdown or a
\* fatal source fault, with the producer created, everything produced has
\* been flushed and the final insight snapshot has been logged.
ShutdownFlushesAndLogsFinalC8 ==
    (pc = "exited" /\ (signalled \/ fatal) /\ producer = "open")
        => flushed = Len(sink) /\ final # <<>>

\* C9 as stated: a process that has exited after a shutdown signal has
\* flushed everything produced and has exit status 0.
SignalExitsWithSuccessC9 ==
    (pc = "exited" /\ signalled) => flushed = Len(sink) /\ exit_status = 0

\* C10 as stated: a process that has exited after a fatal source fault (and
\* no signal) has logged the final insight snapshot and has a non-zero exit
\* status.
FatalFaultExitsNonZeroC10 ==
    (pc = "exited" /\ fatal /\ ~signalled) => final # <<>> /\ exit_status # 0

\* C11: a poll that returns a non-fatal source fault leaves the loop at the
\* poll, and changes neither processed_count nor any insight counter nor the
\* sink nor the number of periodic reports.
NonFatalFaultOnlyLoggedC11 ==
    [][msg'.err = "nonfatal" /\ msg' # msg
          => ( /\ pc = "poll"
               /\ pc' = "poll"
               /\ processed_count' = processed_count
               /\ insights' = insights
               /\ sink' = sink
               /\ reports' = reports
               /\ exit_status' = exit_status )]_vars

\* a non-fatal fault was polled while processed_count stood at 10, after the
\* one report of the tenth record
NonFatalFaultOnlyLoggedC11Witness ==
    /\ pc = "poll"
    /\ msg.err = "nonfatal"
    /\ polled = 10
    /\ processed_count = 10
    /\ Len(sink) = 10
    /\ reports = 1

\* a payload is valid JSON text
IsJson(v) == v.enc = "utf8" /\ v.syn # "garbage"

\* a payload is a JSON object, the payloads process_message has output for
YieldsOutput(v) == v.enc = "utf8" /\ v.syn = "object"

\* out is the output the processing rules give for the JSON object text v
IsOutputOf(out, v) ==
    /\ out.syn = "object"
    /\ IF OnFilterBranch(PollRecord(v))
       THEN SameFieldsBut(out.members, v.members, {})
       ELSE /\ SameFieldsBut(out.members, v.members, {"processed"})
            /\ HasField(out.members, "processed")
            /\ FieldOf(out.members, "processed") = JTrue

\* the periodic reports due over the arrivals arr: one for each arrival
\* after which the number of valid JSON texts so far is a multiple of 10
ReportsDue(arr) ==
    Cardinality({ i \in 1..Len(arr) :
                    Len(SelectSeq(SubSeq(arr, 1, i), IsJson)) % ReportEvery = 0 })

\* the arrivals whose loop body is complete up to the hand-off to the sink
HandedOff ==
    IF pc \in {"process", "produce"}
    THEN SubSeq(arrived, 1, Len(arrived) - 1)
    ELSE arrived

\* C12: records are handled one at a time in arrival order: while the loop
\* runs, the record in hand is the last one polled, the sink holds exactly
\* the outputs of the earlier records in arrival order, and processed_count
\* and the number of periodic reports are functions of the arrival sequence.
ArrivalOrderC12 ==
    pc \in InTry
        => /\ Len(arrived) = polled
           /\ pc # "poll" => msg = PollRecord(arrived[Len(arrived)])
           /\ Len(sink) = Len(SelectSeq(HandedOff, YieldsOutput))
           /\ \A i \in 1..Len(sink) :
                 IsOutputOf(sink[i], SelectSeq(HandedOff, YieldsOutput)[i])
           /\ processed_count
                 = Len(SelectSeq(IF pc = "process" THEN HandedOff ELSE arrived,
                                 IsJson))
           /\ reports = ReportsDue(IF pc = "poll"
                                   THEN arrived
                                   ELSE SubSeq(arrived, 1, Len(arrived) - 1))

\* three records were handled, the second not JSON, the others with
\* different outputs
ArrivalOrderC12Witness ==
    /\ pc = "poll"
    /\ Len(arrived) = 3
    /\ arrived[2] = Garbage
    /\ Len(sink) = 2
    /\ sink[1] # sink[2]
    /\ reports = 0

\* C13: across every step no insight counter decreases and no key is
\* removed, and a step that emits the periodic report or the final report
\* leaves the counters as they are.
InsightsMonotoneC13 ==
    [][ /\ \A k \in DOMAIN insights :
              k \in DOMAIN insights' /\ insights'[k] >= insights[k]
        /\ (reports' # reports \/ final' # final) => insights' = insights ]_vars

\* ten records were tallied, the periodic report fired on the tenth and the
\* final report logged the same counters
InsightsMonotoneC13Witness ==
    /\ pc = "exited"
    /\ processed_count = 10
    /\ Count(insights, "device_type:mobile") + Count(insights, "app_version_2.0.0") = 10
    /\ reports = 1
    /\ final = <<insights>>

\* C14: a step in which delivery_report logs a failure hands nothing to the
\* sink but the record in hand, once, and when it is the loop's produce step
\* the loop goes on to its report test with no exception raised.
DeliveryFailureOnlyLoggedC14 ==
    [][delivery_errors' > delivery_errors
          => ( /\ sink' = IF pc = "produce" /\ signalled' = signalled
                          THEN Append(sink, processed_data)
                          ELSE sink
               /\ (pc = "produce" /\ signalled' = signalled)
                     => ( /\ pc' = "report"
                          /\ pending' = pending
                          /\ exit_status' = exit_status
                          /\ fatal' = fatal ) )]_vars

\* a delivery failure was logged for the first record, and the loop went on
\* to poll and process a second record, which is produced next
DeliveryFailureOnlyLoggedC14Witness ==
    /\ pc = "produce"
    /\ ~signalled
    /\ delivery_errors = 1
    /\ delivery_info = 0
    /\ polled = 2
    /\ Len(sink) = 1
    /\ processed_data # NoOutput

\* C15: a record whose text is JSON but no object is counted and dropped:
\* process_message returns without raising and without output,
\* processed_count keeps the increment for the rest of the iteration, no
\* insight counter changes and nothing is handed to the sink.
NonObjectCountedAndDroppedC15 ==
    [][IsRecord(msg) /\ msg.value \in NonObjects /\ signalled' = signalled
          => ( /\ pc = "process"
                     => ( /\ pc' = "produce"
                          /\ pending' = pending
                          /\ processed_data' = NoOutput
                          /\ processed_count' = processed_count + 1
                          /\ insights' = insights )
               /\ pc \in {"produce", "report"}
                     => ( /\ pc' \in InTry
                          /\ pending' = pending
                          /\ sink' = sink
                          /\ processed_count' = processed_count
                          /\ insights' = insights ) )]_vars

\* a JSON value that is no object went through the whole loop body after an
\* object that was counted and produced
NonObjectCountedAndDroppedC15Witness ==
    /\ pc = "poll"
    /\ IsRecord(msg)
    /\ msg.value \in NonObjects
    /\ polled = 2
    /\ processed_count = 2
    /\ Len(sink) = 1

\* device_type is absent or the empty string
HasNoDeviceType(m) ==
    \/ ~HasField(m.value.members, "device_type")
    \/ FieldOf(m.value.members, "device_type") = Str("")

\* C16: processing an object off the filter branch whose device_type is
\* absent or empty changes no insight counter and creates no key, increments
\* processed_count by 1 and returns the object with processed = true.
DefaultWithoutDeviceC16 ==
    [][ProcessReturns /\ OnDefaultBranch(msg) /\ HasNoDeviceType(msg)
          => ( /\ insights' = insights
               /\ processed_count' = processed_count + 1
               /\ processed_data'.syn = "object"
               /\ HasField(processed_data'.members, "processed")
               /\ FieldOf(processed_data'.members, "processed") = JTrue
               /\ SameFieldsBut(processed_data'.members, msg.value.members,
                                {"processed"}) )]_vars

\* an object with an empty device_type was processed after one with a device
\* type: the only counter is the earlier record's
DefaultWithoutDeviceC16Witness ==
    /\ pc = "produce"
    /\ OnDefaultBranch(msg)
    /\ HasField(msg.value.members, "device_type")
    /\ FieldOf(msg.value.members, "device_type") = Str("")
    /\ processed_count = 2
    /\ DOMAIN insights = {"device_type:mobile"}
    /\ FieldOf(processed_data.members, "processed") = JTrue

\* C17 as stated: between iterations and at exit, the produce calls made are
\* exactly one for each output process_message has returned, and never more
\* than processed_count.
EachOutputProducedOnceC17 ==
    pc \in {"poll", "exited"}
        => Len(sink) = returned /\ Len(sink) <= processed_count

\* the insight keys of the device_type family, for the device types of the
\* records considered
DeviceTypeKeys ==
    { "device_type:" \o m.val.v : m \in { x \in Members : x.k = "device_type" } }

\* the sum of the counters of ins over the keys in keys
RECURSIVE SumOver(_, _)
SumOver(ins, keys) ==
    IF keys = {}
    THEN 0
    ELSE LET k == CHOOSE x \in keys : TRUE
         IN  ins[k] + SumOver(ins, keys \ {k})

InsightSum(ins) == SumOver(ins, DOMAIN ins)

\* C18: the sum of all insight counters is at most processed_count, every
\* key of the mapping is 'app_version_2.0.0' or a 'device_type:<value>' key
\* and has a count of at least 1, and no step (hence no single record)
\* increases the sum by more than 1.
InsightSumBoundedC18 ==
    /\ [](/\ InsightSum(insights) <= processed_count
          /\ \A k \in DOMAIN insights :
                /\ k \in {"app_version_2.0.0"} \cup DeviceTypeKeys
                /\ insights[k] >= 1)
    /\ [][insights' # insights
             => InsightSum(insights') <= InsightSum(insights) + 1]_vars

\* two records were counted, a device type tallied for one and nothing for
\* the other, which is no object
InsightSumBoundedC18Witness ==
    /\ pc = "report"
    /\ processed_count = 2
    /\ msg.value \in NonObjects
    /\ DOMAIN insights = {"device_type:mobile"}
    /\ InsightSum(insights) = 1

\* C19 as stated: once handle_shutdown has run, the consumer is closed, the
\* producer exists and has been flushed of everything produced, and no
\* exception has ended or is unwinding the process.
HandlerFindsHandlesC19 ==
    signalled
        => /\ consumer = "closed"
           /\ producer = "open"
           /\ flushed = Len(sink)
           /\ pending # "error"
           /\ exit_status # 1

\* C20 as stated: when the process has exited after a shutdown signal, every
\* output process_message returned has been handed to the sink.
NoOutputLostOnSignalC20 ==
    (pc = "exited" /\ signalled) => Len(sink) = returned

====
